---- MODULE Spec2Model ----
(***************************************************************************)
(* The spend pipeline of src/src/wallet.js: getEncryptedUserKeychain,      *)
(* createTransaction, sendTransaction and sendCoins, as a state machine.   *)
(* Every promise continuation (.then handler) is one action; the           *)
(* collaborators (keychain service, decryption primitive, transaction      *)
(* builder, transport) answer nondeterministically.                        *)
(***************************************************************************)
EXTENDS Integers, Sequences, FiniteSets, TLC

\* ------------------------------------------------------------- bounds
\* Longest keychain list a wallet snapshot carries.
MaxKeychains == 3

\* The sendCoins invocations that may be in flight together.
Spends == {"s1", "s2"}

\* ------------------------------------------------------------- JS values
\* The JS value undefined, for string-valued fields.
Undef == "undefined"

\* A missing property (params.fee, params.amount) read as a JS value.
JsUndefined == [type |-> "undefined", nan |-> FALSE, val |-> 0]

JsNumber(n) == [type |-> "number", nan |-> FALSE, val |-> n]

\* NaN: typeof NaN is 'number', and NaN <= 0 is false.
JsNaN == [type |-> "number", nan |-> TRUE, val |-> 0]

\* Some string where a number is expected.
JsString == [type |-> "string", nan |-> FALSE, val |-> 0]

\* typeof(v): 'number' for numbers, 'undefined' for a missing property.
TypeOf(v) == v.type

\* v <= 0 on a JS number.
LeqZero(v) == ~v.nan /\ v.val <= 0

\* A keychain record: xpub, optional encryptedXprv, optional xprv.
Keychain(xpub, enc, xprv) == [xpub |-> xpub, encryptedXprv |-> enc, xprv |-> xprv]

NoKeychain == Keychain(Undef, Undef, Undef)

\* The value of `transaction` (line 290) before line 310 assigns it.
NoTransaction == [defined |-> FALSE, tx |-> Undef, fee |-> JsUndefined]

NoReceipt == [tx |-> Undef, hash |-> Undef, fee |-> JsUndefined]

\* ------------------------------------------------------------- error values
ErrAmountType == "invalid argument for amount - number expected"

ErrAmountPositive == "must send positive number of Satoshis!"

ErrInvalidArgument == "invalid argument"

ErrNoKeychains == "No encrypted keychains on this wallet."

ErrDecrypt == "Unable to decrypt user keychain"

\* Wallet.prototype has no reject method: the calls self.reject(...) of
\* lines 178 and 299 throw this TypeError instead of rejecting with a message.
TypeErrorReject == "TypeError: self.reject is not a function"

\* Line 312 reads transaction.tx of an undefined transaction.
TypeErrorTx == "TypeError: Cannot read property 'tx' of undefined"

ErrMissing(name) == "Missing parameter: " \o name

\* The errors the collaborators raise.
KeychainServiceError == "NetworkError: keychain service"

PrepareError == "BuildError: prepare"

SignError == "BuildError: sign"

TransportError == "NetworkError: /tx/send"

\* ------------------------------------------------------------- input domains
XpubNames == <<"xpub1", "xpub2", "xpub3", "xpub4", "xpub5">>

EncNames == <<"enc1", "enc2", "enc3", "enc4", "enc5">>

XprvNames == <<"xprv1", "xprv2", "xprv3", "xprv4", "xprv5">>

CorruptBlob == "corrupt"

Passphrase == "correct"

\* wallet.private.keychains of a snapshot: absent, or a list of references.
KeychainList(n) == [defined |-> TRUE, list |-> [i \in 1..n |-> Keychain(XpubNames[i], Undef, Undef)]]

NoKeychainList == [defined |-> FALSE, list |-> <<>>]

WalletSnapshots ==
  {[private |-> FALSE, keychains |-> NoKeychainList],
   [private |-> TRUE, keychains |-> NoKeychainList]}
  \cup {[private |-> TRUE, keychains |-> KeychainList(n)] : n \in 0..MaxKeychains}

Requests ==
  [address : {Undef, "1ABC"},
   walletPassphrase : {Undef, Passphrase, "wrong"},
   amount : {JsUndefined, JsString, JsNaN, JsNumber(-1), JsNumber(0), JsNumber(100000)},
   fee : {JsUndefined, JsNumber(500)}]

\* What the keychain service may answer for the reference at position i.
EncValues(i) == {Undef, EncNames[i + 1], CorruptBlob}

\* Builder states sign may return: serialized transaction and fee.
BuilderStates == [tx : {"deadbeef", "cafe", ""}, fee : {JsNumber(1000), JsNumber(2000)}]

\* Bodies the remote service may answer to POST /tx/send.
Bodies == [transaction : {"deadbeef", "cosigned"}, transactionHash : {"h1"}]

VARIABLES
  wallet,      \* this.wallet, the snapshot
  keychains,   \* this.keychains
  pc,          \* per spend: where its promise chain stands
  params,      \* per spend: the params of the call
  index,       \* per spend: tryKeyChain's index (0-based as in the source)
  keychain,    \* per spend: the keychain record the resolver returned
  transaction, \* the storage of `var transaction` (line 290)
  outcome,     \* per spend: what the caller got
  obs,         \* per spend: the collaborator calls observed (history)
  api          \* per caller: the method called, its callback and what it received

vars == <<wallet, keychains, pc, params, index, keychain, transaction, outcome, obs, api>>

\* ------------------------------------------------------------- helpers
\* Constructor: this.keychains is [] unless the snapshot has a private part.
WalletKeychains(w) ==
  IF w.private THEN w.keychains ELSE [defined |-> TRUE, list |-> <<>>]

\* JS truthiness of a string-valued field.
Truthy(s) == s # Undef /\ s # ""

NoError == "none"

\* common.validateParams(params, expected, [], callback): the first expected
\* parameter that is missing is reported.
ValidateParams(prm, expected) ==
  IF \E i \in 1..Len(expected) : ~Truthy(prm[expected[i]])
  THEN ErrMissing(expected[CHOOSE i \in 1..Len(expected) :
                     /\ ~Truthy(prm[expected[i]])
                     /\ \A j \in 1..(i - 1) : Truthy(prm[expected[j]])])
  ELSE NoError

\* Faulty variant: the test written amount < 0.
AmountRejectedStrict(amount) == ~amount.nan /\ amount.val < 0

\* The amount test of sendCoins, line 285 (and createTransaction, line 218).
AmountRejected(amount) == LeqZero(amount)

\* Faulty variant: sendCoins also refuses a fee that is no number.
SendCoinsValidationWithFee(prm) ==
  IF ValidateParams(prm, <<"address", "walletPassphrase">>) # NoError
  THEN ValidateParams(prm, <<"address", "walletPassphrase">>)
  ELSE IF TypeOf(prm.amount) # "number" THEN ErrAmountType
  ELSE IF TypeOf(prm.fee) # "number" /\ TypeOf(prm.fee) # "undefined" THEN ErrInvalidArgument
  ELSE IF AmountRejected(prm.amount) THEN ErrAmountPositive
  ELSE NoError

\* The synchronous checks of sendCoins, lines 279-287.
SendCoinsValidation(prm) ==
  IF ValidateParams(prm, <<"address", "walletPassphrase">>) # NoError
  THEN ValidateParams(prm, <<"address", "walletPassphrase">>)
  ELSE IF TypeOf(prm.amount) # "number" THEN ErrAmountType
  ELSE IF AmountRejected(prm.amount) THEN ErrAmountPositive
  ELSE NoError

\* Faulty variant: the type of the keychain left unchecked.
CreateTransactionValidationNoKeychain(prm) ==
  IF ValidateParams(prm, <<"address">>) # NoError
  THEN ValidateParams(prm, <<"address">>)
  ELSE IF \/ TypeOf(prm.amount) # "number"
          \/ (TypeOf(prm.fee) # "number" /\ TypeOf(prm.fee) # "undefined")
  THEN ErrInvalidArgument
  ELSE IF AmountRejected(prm.amount) THEN ErrAmountPositive
  ELSE NoError

\* The synchronous checks of createTransaction, lines 210-220.
CreateTransactionValidation(prm) ==
  IF ValidateParams(prm, <<"address">>) # NoError
  THEN ValidateParams(prm, <<"address">>)
  ELSE IF \/ TypeOf(prm.amount) # "number"
          \/ (TypeOf(prm.fee) # "number" /\ TypeOf(prm.fee) # "undefined")
          \/ prm.keychainType # "object"
  THEN ErrInvalidArgument
  ELSE IF AmountRejected(prm.amount) THEN ErrAmountPositive
  ELSE NoError

\* Faulty variant: the fee of the request handed on to createTransaction.
CreateTransactionParamsWithFee(prm) ==
  [address |-> prm.address, amount |-> prm.amount, fee |-> prm.fee,
   keychainType |-> "object"]

\* The parameters sendCoins hands to createTransaction, lines 303-307:
\* address, amount and keychain; no fee.
CreateTransactionParams(prm) ==
  [address |-> prm.address, amount |-> prm.amount, fee |-> JsUndefined,
   keychainType |-> "object"]

\* What the decryption primitive throws: for a blob that is no ciphertext,
\* and for a ciphertext under another passphrase.
DecryptErrCorrupt == "sjcl: json decode: this isn't json!"

DecryptErrPassword == "sjcl: ccm: tag doesn't match"

\* The decryption primitive: the plaintext of a blob under the passphrase
\* it was encrypted with, a throw otherwise.
Decrypt(password, opaque) ==
  IF ~\E i \in 1..Len(EncNames) : EncNames[i] = opaque
  THEN [ok |-> FALSE, plaintext |-> Undef, err |-> DecryptErrCorrupt]
  ELSE IF password # Passphrase
  THEN [ok |-> FALSE, plaintext |-> Undef, err |-> DecryptErrPassword]
  ELSE [ok |-> TRUE,
        plaintext |-> XprvNames[CHOOSE i \in 1..Len(EncNames) : EncNames[i] = opaque],
        err |-> NoError]

\* Faulty variant: the primitive's own error is passed on to the caller.
CaughtDecryptFailureLeaking(e) == e

\* The catch block of lines 298-300 for the error e the primitive threw: e is
\* dropped, and the call of self.reject throws its TypeError.
CaughtDecryptFailure(e) == TypeErrorReject

\* tryKeyChain's guard, line 177.
Exhausted(i) == ~keychains.defined \/ i >= Len(keychains.list)

\* The candidate tryKeyChain(index) asks the keychain service for, line 181.
Candidate(i) == keychains.list[i + 1]

\* The test of line 186 on the fetched record.
IsUserKeychain(kc) == Truthy(kc.encryptedXprv)

\* Faulty variant: the recursion skips a candidate.
NextIndexSkipping(i) == i + 2

\* The index tryKeyChain recurses with, line 189.
NextIndex(i) == i + 1

\* The index the search starts at, line 194.
FirstIndex == 0

\* Faulty variant: the plaintext also cached on the wallet's own reference.
KeychainsAfterUnlockCached(i, xprv) == [keychains EXCEPT !.list[i + 1].xprv = xprv]

\* this.keychains after line 297 stored the plaintext: the assignment goes to
\* the record the keychain service returned, the wallet's references stay.
KeychainsAfterUnlock(i, xprv) == keychains

\* Faulty variant: the fee left out of createTransaction's result.
AssembledNoFee(tb) == [defined |-> TRUE, tx |-> tb.tx, fee |-> JsUndefined]

\* createTransaction's result for a builder state, lines 228-231.
Assembled(tb) == [defined |-> TRUE, tx |-> tb.tx, fee |-> tb.fee]

\* Faulty variant: the two fields of the response body taken for each other.
ReceiptSwapped(body) == [tx |-> body.transactionHash, hash |-> body.transaction]

\* sendTransaction's result for a response body, lines 254-257.
Receipt(body) == [tx |-> body.transaction, hash |-> body.transactionHash]

\* Faulty variant: the fee read from the broadcast result, which has none.
SpendResultFeeOfReceipt(result, trans) ==
  [tx |-> result.tx, hash |-> result.hash, fee |-> JsUndefined]

\* sendCoins' result, lines 315-319.
SpendResult(result, trans) == [tx |-> result.tx, hash |-> result.hash, fee |-> trans.fee]

\* Faulty variant: `transaction` declared outside sendCoins, one cell for all.
TransactionVarShared(p) == "s1"

\* Where `var transaction` of an invocation lives: one cell per invocation.
TransactionVar(p) == p

\* ------------------------------------------------------------- outcomes
Pending == [kind |-> "pending", err |-> NoError, value |-> NoReceipt]

Thrown(e) == [kind |-> "thrown", err |-> e, value |-> NoReceipt]

Rejected(e) == [kind |-> "rejected", err |-> e, value |-> NoReceipt]

Resolved(v) == [kind |-> "resolved", err |-> NoError, value |-> v]

\* ------------------------------------------------------------- callers
\* The JS value undefined where an object is expected (a result, a keychain).
Nothing == [defined |-> FALSE]

\* A caller: the method it calls, whether it passes a callback, and the
\* invocations of that callback so far.
Caller(op, hasCallback) ==
  [op |-> op, hasCallback |-> hasCallback, delivered |-> <<>>]

\* What nodeify(callback) hands to the callback for a settled promise:
\* (err) for a rejection, (null, value) for a fulfilment.
Delivery(out) ==
  [err |-> out.err, value |-> IF out.kind = "resolved" THEN out.value ELSE Nothing]

\* nodeify(callback), line 321: a callback that was passed is invoked once
\* the promise settles; an exception thrown by the method never reaches it.
Nodeify(a, out) ==
  IF a.hasCallback /\ out.kind # "thrown"
  THEN [a EXCEPT !.delivered = Append(@, Delivery(out))]
  ELSE a

\* ------------------------------------------------------------- history
NoArgs == [address |-> Undef, amount |-> JsUndefined, fee |-> JsUndefined]

NoBody == [transaction |-> Undef, transactionHash |-> Undef]

NoObs ==
  [calls |-> <<>>, requested |-> <<>>, fetched |-> <<>>, raised |-> NoError,
   decryptArgs |-> <<>>,
   prepared |-> NoArgs, signedWith |-> NoKeychain, built |-> NoTransaction,
   posted |-> Undef, body |-> NoBody]

\* A collaborator call is issued.
Called(o, name) == [o EXCEPT !.calls = Append(@, [call |-> name, st |-> "pending"])]

\* The pending call is answered.
Answered(o, st) == [o EXCEPT !.calls[Len(o.calls)].st = st]

\* ------------------------------------------------------------- actions
Init ==
  /\ wallet \in WalletSnapshots
  /\ keychains = WalletKeychains(wallet)
  /\ pc = [p \in Spends |-> "idle"]
  /\ params = [p \in Spends |-> CHOOSE r \in Requests : TRUE]
  /\ index = [p \in Spends |-> FirstIndex]
  /\ keychain = [p \in Spends |-> NoKeychain]
  /\ transaction = [p \in Spends |-> NoTransaction]
  /\ outcome = [p \in Spends |-> Pending]
  /\ obs = [p \in Spends |-> NoObs]
  /\ api = [p \in Spends |-> Caller("sendCoins", FALSE)]

\* The promise chain of p settles (or sendCoins throws): the caller gets out,
\* and the invocation's closures, with their variables, are released.
Finish(p, out) ==
  /\ pc' = [pc EXCEPT ![p] = "done"]
  /\ outcome' = [outcome EXCEPT ![p] = out]
  /\ index' = [index EXCEPT ![p] = FirstIndex]
  /\ keychain' = [keychain EXCEPT ![p] = NoKeychain]
  /\ transaction' = [transaction EXCEPT ![TransactionVar(p)] = NoTransaction]
  /\ api' = [api EXCEPT ![p] = Nodeify(@, out)]

\* tryKeyChain(i), lines 176-192, up to the request it sends. failure is how
\* the TypeError of line 178 reaches the caller: thrown when tryKeyChain(0) runs
\* inside sendCoins, a rejection when it runs inside the handler of line 184.
TryKeyChain(p, i, o, failure) ==
  IF Exhausted(i)
  THEN /\ Finish(p, failure)
       /\ obs' = [obs EXCEPT ![p] = o]
  ELSE /\ pc' = [pc EXCEPT ![p] = "resolving"]
       /\ index' = [index EXCEPT ![p] = i]
       /\ obs' = [obs EXCEPT ![p] =
                    [Called(o, "get") EXCEPT !.requested = Append(@, Candidate(i).xpub)]]
       /\ UNCHANGED <<keychain, transaction, outcome, api>>

\* sendCoins(params), lines 277-293: the synchronous part.
SendCoins(p, prm) ==
  /\ pc[p] = "idle"
  /\ api[p].op = "sendCoins"
  /\ params' = [params EXCEPT ![p] = prm]
  /\ IF SendCoinsValidation(prm) # NoError
     THEN /\ Finish(p, Thrown(SendCoinsValidation(prm)))
          /\ UNCHANGED obs
     ELSE TryKeyChain(p, FirstIndex, obs[p], Thrown(TypeErrorReject))
  /\ UNCHANGED <<wallet, keychains>>

\* The keychain service answers with a record: the handler of lines 184-190.
KeychainGetOk(p, enc) ==
  /\ pc[p] = "resolving"
  /\ LET kc == Keychain(Candidate(index[p]).xpub, enc, Undef)
         o == [Answered(obs[p], "ok") EXCEPT !.fetched = Append(@, kc)]
     IN IF IsUserKeychain(kc)
        THEN /\ pc' = [pc EXCEPT ![p] = "unlocking"]
             /\ keychain' = [keychain EXCEPT ![p] = kc]
             /\ obs' = [obs EXCEPT ![p] = o]
             /\ UNCHANGED <<index, transaction, outcome, api>>
        ELSE TryKeyChain(p, NextIndex(index[p]), o, Rejected(TypeErrorReject))
  /\ UNCHANGED <<wallet, keychains, params>>

\* Faulty variant: a failed fetch is swallowed and the next candidate is tried.
KeychainGetFailSkipped(p) ==
  /\ pc[p] = "resolving"
  /\ TryKeyChain(p, NextIndex(index[p]),
                 [Answered(obs[p], "failed") EXCEPT !.raised = KeychainServiceError],
                 Rejected(TypeErrorReject))
  /\ UNCHANGED <<wallet, keychains, params>>

\* The keychain service fails: no handler of the chain takes a rejection.
KeychainGetFail(p) ==
  /\ pc[p] = "resolving"
  /\ Finish(p, Rejected(KeychainServiceError))
  /\ obs' = [obs EXCEPT ![p] = [Answered(@, "failed") EXCEPT !.raised = KeychainServiceError]]
  /\ UNCHANGED <<wallet, keychains, params>>

\* The handler of lines 294-308: decrypt, then createTransaction up to prepare().
Unlock(p) ==
  /\ pc[p] = "unlocking"
  /\ LET d == Decrypt(params[p].walletPassphrase, keychain[p].encryptedXprv)
         called == [Called(obs[p], "decrypt") EXCEPT
                      !.decryptArgs = <<params[p].walletPassphrase, keychain[p].encryptedXprv>>]
         ctp == CreateTransactionParams(params[p])
     IN IF ~d.ok
        THEN /\ Finish(p, Rejected(CaughtDecryptFailure(d.err)))
             /\ obs' = [obs EXCEPT ![p] = Answered(called, "failed")]
        ELSE IF CreateTransactionValidation(ctp) # NoError
        THEN /\ Finish(p, Rejected(CreateTransactionValidation(ctp)))
             /\ obs' = [obs EXCEPT ![p] = Answered(called, "ok")]
        ELSE /\ pc' = [pc EXCEPT ![p] = "preparing"]
             /\ keychain' = [keychain EXCEPT ![p].xprv = d.plaintext]
             /\ obs' = [obs EXCEPT ![p] =
                          [Called(Answered(called, "ok"), "prepare") EXCEPT
                             !.prepared = [address |-> ctp.address, amount |-> ctp.amount,
                                           fee |-> ctp.fee]]]
             /\ UNCHANGED <<index, transaction, outcome, api>>
  /\ LET d == Decrypt(params[p].walletPassphrase, keychain[p].encryptedXprv)
     IN keychains' = IF d.ok THEN KeychainsAfterUnlock(index[p], d.plaintext)
                             ELSE keychains
  /\ UNCHANGED <<wallet, params>>

\* prepare() resolves: the handler of lines 223-225 calls sign.
PrepareOk(p) ==
  /\ pc[p] = "preparing"
  /\ pc' = [pc EXCEPT ![p] = "signing"]
  /\ obs' = [obs EXCEPT ![p] =
               [Called(Answered(@, "ok"), "sign") EXCEPT !.signedWith = keychain[p]]]
  /\ UNCHANGED <<wallet, keychains, params, index, keychain, transaction, outcome, api>>

PrepareFail(p) ==
  /\ pc[p] = "preparing"
  /\ Finish(p, Rejected(PrepareError))
  /\ obs' = [obs EXCEPT ![p] = [Answered(@, "failed") EXCEPT !.raised = PrepareError]]
  /\ UNCHANGED <<wallet, keychains, params>>

\* sign resolves with a builder state: lines 226-233, then the handler of
\* lines 309-313, which keeps the result and calls sendTransaction (245-252).
SignOk(p, tb) ==
  /\ pc[p] = "signing"
  /\ LET result == Assembled(tb)
         o == [Answered(obs[p], "ok") EXCEPT
                 !.built = [defined |-> TRUE, tx |-> tb.tx, fee |-> tb.fee]]
     IN IF ValidateParams([tx |-> result.tx], <<"tx">>) # NoError
        THEN /\ Finish(p, Rejected(ValidateParams([tx |-> result.tx], <<"tx">>)))
             /\ obs' = [obs EXCEPT ![p] = o]
        ELSE /\ pc' = [pc EXCEPT ![p] = "broadcasting"]
             /\ transaction' = [transaction EXCEPT ![TransactionVar(p)] = result]
             /\ obs' = [obs EXCEPT ![p] = [Called(o, "post") EXCEPT !.posted = result.tx]]
             /\ UNCHANGED <<index, keychain, outcome, api>>
  /\ UNCHANGED <<wallet, keychains, params>>

\* Faulty variant: an empty sign result is passed on as a transaction without payload
\* and posted.
SignEmptyPosted(p) ==
  /\ pc[p] = "signing"
  /\ pc' = [pc EXCEPT ![p] = "broadcasting"]
  /\ obs' = [obs EXCEPT ![p] = Called(Answered(@, "empty"), "post")]
  /\ UNCHANGED <<wallet, keychains, params, index, keychain, transaction, outcome, api>>

\* Faulty variant: sign's empty answer settles nothing; the spend stays open.
SignEmptyHangs(p) ==
  /\ pc[p] = "signing"
  /\ pc' = [pc EXCEPT ![p] = "waiting"]
  /\ obs' = [obs EXCEPT ![p] = Answered(@, "empty")]
  /\ UNCHANGED <<wallet, keychains, params, index, keychain, transaction, outcome, api>>

\* sign resolves with nothing: createTransaction resolves undefined (226-233)
\* and line 312 reads transaction.tx of it.
SignEmpty(p) ==
  /\ pc[p] = "signing"
  /\ Finish(p, Rejected(TypeErrorTx))
  /\ obs' = [obs EXCEPT ![p] = Answered(@, "empty")]
  /\ UNCHANGED <<wallet, keychains, params>>

SignFail(p) ==
  /\ pc[p] = "signing"
  /\ Finish(p, Rejected(SignError))
  /\ obs' = [obs EXCEPT ![p] = [Answered(@, "failed") EXCEPT !.raised = SignError]]
  /\ UNCHANGED <<wallet, keychains, params>>

\* POST /tx/send answers: lines 253-258, then the handler of lines 314-320.
BroadcastOk(p, body) ==
  /\ pc[p] = "broadcasting"
  /\ Finish(p, Resolved(SpendResult(Receipt(body), transaction[TransactionVar(p)])))
  /\ obs' = [obs EXCEPT ![p] = [Answered(@, "ok") EXCEPT !.body = body]]
  /\ UNCHANGED <<wallet, keychains, params>>

BroadcastFail(p) ==
  /\ pc[p] = "broadcasting"
  /\ Finish(p, Rejected(TransportError))
  /\ obs' = [obs EXCEPT ![p] = [Answered(@, "failed") EXCEPT !.raised = TransportError]]
  /\ UNCHANGED <<wallet, keychains, params>>

\* The continuations of sendCoins: collaborator answers and handlers.
Steps ==
  \/ \E p \in Spends : \E enc \in EncValues(index[p]) : KeychainGetOk(p, enc)
  \/ \E p \in Spends : KeychainGetFail(p)
  \/ \E p \in Spends : Unlock(p)
  \/ \E p \in Spends : PrepareOk(p)
  \/ \E p \in Spends : PrepareFail(p)
  \/ \E p \in Spends, tb \in BuilderStates : SignOk(p, tb)
  \/ \E p \in Spends : SignEmpty(p)
  \/ \E p \in Spends : SignFail(p)
  \/ \E p \in Spends, body \in Bodies : BroadcastOk(p, body)
  \/ \E p \in Spends : BroadcastFail(p)

Next ==
  \/ \E p \in Spends, prm \in Requests : SendCoins(p, prm)
  \/ Steps

Spec == Init /\ [][Next]_vars

\* ------------------------------------------------------------- the methods called on their own
\* The caller of the second specification, which calls one method of the
\* wallet, with or without a callback.
ApiCaller == "s1"

Methods == {"sendCoins", "getEncryptedUserKeychain", "createTransaction", "sendTransaction"}

\* sendCoins params, with a fee of any type.
WideRequests ==
  [address : {Undef, "1ABC"},
   walletPassphrase : {Undef, Passphrase, "wrong"},
   amount : {JsUndefined, JsString, JsNaN, JsNumber(-1), JsNumber(0), JsNumber(100000)},
   fee : {JsUndefined, JsNumber(500), JsString}]

\* createTransaction params; keychainType is typeof(params.keychain).
CreateRequests ==
  [address : {Undef, "1ABC"},
   amount : {JsUndefined, JsString, JsNumber(0), JsNumber(100000)},
   fee : {JsUndefined, JsNumber(500), JsString},
   keychainType : {"object", "undefined"}]

\* The decrypted keychain a caller of createTransaction passes.
CallerKeychain == Keychain("xpub1", "enc1", "xprv1")

\* sendTransaction params.
SendRequests == [tx : {Undef, "", "deadbeef", "not hex"}]

InitApi ==
  /\ wallet \in WalletSnapshots
  /\ keychains = WalletKeychains(wallet)
  /\ pc = [p \in Spends |-> "idle"]
  /\ params = [p \in Spends |-> CHOOSE r \in Requests : TRUE]
  /\ index = [p \in Spends |-> FirstIndex]
  /\ keychain = [p \in Spends |-> NoKeychain]
  /\ transaction = [p \in Spends |-> NoTransaction]
  /\ outcome = [p \in Spends |-> Pending]
  /\ obs = [p \in Spends |-> NoObs]
  /\ \E m \in Methods, cb \in BOOLEAN :
       api = [p \in Spends |-> IF p = ApiCaller THEN Caller(m, cb) ELSE Caller("none", FALSE)]

\* What the handler of lines 184-190 returns when it returns tryKeyChain(i):
\* nodeify(callback) of line 191 returns the promise only when no callback was
\* passed, and nothing otherwise; with a callback the promise of the level
\* above is therefore fulfilled with undefined at once, and line 191 hands
\* that to the callback.
AfterRecursion(a) == Nodeify(a, Resolved(Nothing))

\* tryKeyChain(i) of getEncryptedUserKeychain called on its own; a is the
\* caller after the deliveries made so far.
ResolverTryKeyChain(p, i, o, failure, a) ==
  IF Exhausted(i)
  THEN /\ pc' = [pc EXCEPT ![p] = "done"]
       /\ outcome' = [outcome EXCEPT ![p] = failure]
       /\ index' = [index EXCEPT ![p] = FirstIndex]
       /\ api' = [api EXCEPT ![p] = Nodeify(api[p], failure)]
       /\ obs' = [obs EXCEPT ![p] = o]
  ELSE /\ pc' = [pc EXCEPT ![p] = "r_resolving"]
       /\ index' = [index EXCEPT ![p] = i]
       /\ obs' = [obs EXCEPT ![p] =
                    [Called(o, "get") EXCEPT !.requested = Append(@, Candidate(i).xpub)]]
       /\ api' = [api EXCEPT ![p] = a]
       /\ UNCHANGED outcome

\* getEncryptedUserKeychain(params, callback), lines 171-195.
GetEncryptedUserKeychain(p) ==
  /\ pc[p] = "idle"
  /\ api[p].op = "getEncryptedUserKeychain"
  /\ ResolverTryKeyChain(p, FirstIndex, obs[p], Thrown(TypeErrorReject), api[p])
  /\ UNCHANGED <<wallet, keychains, params, keychain, transaction>>

\* The keychain service answers: the handler of lines 184-190 and the
\* nodeify of line 191.
ResolverGetOk(p, enc) ==
  /\ pc[p] = "r_resolving"
  /\ LET kc == Keychain(Candidate(index[p]).xpub, enc, Undef)
         o == [Answered(obs[p], "ok") EXCEPT !.fetched = Append(@, kc)]
     IN IF IsUserKeychain(kc)
        THEN /\ pc' = [pc EXCEPT ![p] = "done"]
             /\ outcome' = [outcome EXCEPT ![p] = Resolved(kc)]
             /\ index' = [index EXCEPT ![p] = FirstIndex]
             /\ api' = [api EXCEPT ![p] = Nodeify(@, Resolved(kc))]
             /\ obs' = [obs EXCEPT ![p] = o]
        ELSE ResolverTryKeyChain(p, NextIndex(index[p]), o, Rejected(TypeErrorReject),
                                 AfterRecursion(api[p]))
  /\ UNCHANGED <<wallet, keychains, params, keychain, transaction>>

ResolverGetFail(p) ==
  /\ pc[p] = "r_resolving"
  /\ pc' = [pc EXCEPT ![p] = "done"]
  /\ outcome' = [outcome EXCEPT ![p] = Rejected(KeychainServiceError)]
  /\ index' = [index EXCEPT ![p] = FirstIndex]
  /\ api' = [api EXCEPT ![p] = Nodeify(@, Rejected(KeychainServiceError))]
  /\ obs' = [obs EXCEPT ![p] = [Answered(@, "failed") EXCEPT !.raised = KeychainServiceError]]
  /\ UNCHANGED <<wallet, keychains, params, keychain, transaction>>

\* The fee createTransaction hands to the builder, line 222.
FeeOverride(prm) == prm.fee

\* createTransaction(params, callback), lines 208-222: the checks, then the
\* builder is constructed and prepare() called.
CreateTransaction(p, prm) ==
  /\ pc[p] = "idle"
  /\ api[p].op = "createTransaction"
  /\ params' = [params EXCEPT ![p] = prm]
  /\ IF CreateTransactionValidation(prm) # NoError
     THEN /\ Finish(p, Thrown(CreateTransactionValidation(prm)))
          /\ UNCHANGED obs
     ELSE /\ pc' = [pc EXCEPT ![p] = "ct_preparing"]
          /\ obs' = [obs EXCEPT ![p] =
                       [Called(@, "prepare") EXCEPT
                          !.prepared = [address |-> prm.address, amount |-> prm.amount,
                                        fee |-> FeeOverride(prm)]]]
          /\ UNCHANGED <<index, keychain, transaction, outcome, api>>
  /\ UNCHANGED <<wallet, keychains>>

\* prepare() resolves: the handler of lines 223-225 calls sign.
CtPrepareOk(p) ==
  /\ pc[p] = "ct_preparing"
  /\ pc' = [pc EXCEPT ![p] = "ct_signing"]
  /\ obs' = [obs EXCEPT ![p] =
               [Called(Answered(@, "ok"), "sign") EXCEPT !.signedWith = CallerKeychain]]
  /\ UNCHANGED <<wallet, keychains, params, index, keychain, transaction, outcome, api>>

CtPrepareFail(p) ==
  /\ pc[p] = "ct_preparing"
  /\ Finish(p, Rejected(PrepareError))
  /\ obs' = [obs EXCEPT ![p] = [Answered(@, "failed") EXCEPT !.raised = PrepareError]]
  /\ UNCHANGED <<wallet, keychains, params>>

\* sign resolves with a builder state: lines 226-232.
CtSignOk(p, tb) ==
  /\ pc[p] = "ct_signing"
  /\ Finish(p, Resolved(Assembled(tb)))
  /\ obs' = [obs EXCEPT ![p] =
               [Answered(@, "ok") EXCEPT
                  !.built = [defined |-> TRUE, tx |-> tb.tx, fee |-> tb.fee]]]
  /\ UNCHANGED <<wallet, keychains, params>>

\* sign resolves with nothing: the handler of lines 226-233 returns nothing.
CtSignEmpty(p) ==
  /\ pc[p] = "ct_signing"
  /\ Finish(p, Resolved(Nothing))
  /\ obs' = [obs EXCEPT ![p] = Answered(@, "empty")]
  /\ UNCHANGED <<wallet, keychains, params>>

CtSignFail(p) ==
  /\ pc[p] = "ct_signing"
  /\ Finish(p, Rejected(SignError))
  /\ obs' = [obs EXCEPT ![p] = [Answered(@, "failed") EXCEPT !.raised = SignError]]
  /\ UNCHANGED <<wallet, keychains, params>>

\* sendTransaction(params, callback), lines 245-252.
SendTransaction(p, prm) ==
  /\ pc[p] = "idle"
  /\ api[p].op = "sendTransaction"
  /\ params' = [params EXCEPT ![p] = prm]
  /\ IF ValidateParams(prm, <<"tx">>) # NoError
     THEN /\ Finish(p, Thrown(ValidateParams(prm, <<"tx">>)))
          /\ UNCHANGED obs
     ELSE /\ pc' = [pc EXCEPT ![p] = "st_posting"]
          /\ obs' = [obs EXCEPT ![p] = [Called(@, "post") EXCEPT !.posted = prm.tx]]
          /\ UNCHANGED <<index, keychain, transaction, outcome, api>>
  /\ UNCHANGED <<wallet, keychains>>

\* POST /tx/send answers: the handler of lines 253-258.
StPostOk(p, body) ==
  /\ pc[p] = "st_posting"
  /\ Finish(p, Resolved(Receipt(body)))
  /\ obs' = [obs EXCEPT ![p] = [Answered(@, "ok") EXCEPT !.body = body]]
  /\ UNCHANGED <<wallet, keychains, params>>

StPostFail(p) ==
  /\ pc[p] = "st_posting"
  /\ Finish(p, Rejected(TransportError))
  /\ obs' = [obs EXCEPT ![p] = [Answered(@, "failed") EXCEPT !.raised = TransportError]]
  /\ UNCHANGED <<wallet, keychains, params>>

\* The continuations of the methods called on their own.
ApiSteps ==
  \/ \E enc \in EncValues(index[ApiCaller]) : ResolverGetOk(ApiCaller, enc)
  \/ ResolverGetFail(ApiCaller)
  \/ CtPrepareOk(ApiCaller)
  \/ CtPrepareFail(ApiCaller)
  \/ \E tb \in BuilderStates : CtSignOk(ApiCaller, tb)
  \/ CtSignEmpty(ApiCaller)
  \/ CtSignFail(ApiCaller)
  \/ \E body \in Bodies : StPostOk(ApiCaller, body)
  \/ StPostFail(ApiCaller)

NextApi ==
  \/ \E prm \in WideRequests : SendCoins(ApiCaller, prm)
  \/ GetEncryptedUserKeychain(ApiCaller)
  \/ \E prm \in CreateRequests : CreateTransaction(ApiCaller, prm)
  \/ \E prm \in SendRequests : SendTransaction(ApiCaller, prm)
  \/ Steps
  \/ ApiSteps

\* One caller, one method call, every method and both calling styles.
ApiSpec == InitApi /\ [][NextApi]_vars

\* Every pending collaborator call is answered and every handler runs.
FairApiSpec == ApiSpec /\ WF_vars(Steps \/ ApiSteps)

\* ------------------------------------------------------------- observations
Done(p) == pc[p] = "done"

\* The names of the collaborator calls of p, in the order they were issued.
CallNames(p) == [i \in 1..Len(obs[p].calls) |-> obs[p].calls[i].call]

CallCount(p, name) == Cardinality({i \in 1..Len(obs[p].calls) : obs[p].calls[i].call = name})

\* The call of p named name was answered with st.
CallEnded(p, name, st) ==
  \E i \in 1..Len(obs[p].calls) : obs[p].calls[i] = [call |-> name, st |-> st]

\* No call to the transaction builder or the broadcast endpoint.
NoBuilderNoBroadcast(p) ==
  CallCount(p, "prepare") = 0 /\ CallCount(p, "sign") = 0 /\ CallCount(p, "post") = 0

\* A request the Idle state must refuse: a field missing, an amount whose
\* type is not number, or an amount <= 0.
InvalidRequest(prm) ==
  \/ prm.address = Undef
  \/ prm.walletPassphrase = Undef
  \/ prm.amount.type # "number"
  \/ (prm.amount.type = "number" /\ ~prm.amount.nan /\ prm.amount.val <= 0)

\* ------------------------------------------------------------- C1
\* C1 (as claimed): when sign reports no transaction, the spend terminates
\* with no error and no result, and the broadcast endpoint is not invoked.
C1_NoTransactionIsNoError ==
  \A p \in Spends :
    (Done(p) /\ CallEnded(p, "sign", "empty")) =>
      /\ outcome[p] = Resolved(NoReceipt)
      /\ CallCount(p, "post") = 0

\* ------------------------------------------------------------- C2
\* C2 (as claimed): when decrypt fails the spend fails with the decryption
\* error and neither the builder nor the broadcast endpoint is called; the
\* builder only ever signs with a keychain whose xprv a decrypt produced.
C2_DecryptFailureIsDecryptionError ==
  \A p \in Spends :
    /\ CallEnded(p, "decrypt", "failed") =>
         /\ Done(p)
         /\ outcome[p] = Rejected(ErrDecrypt)
         /\ NoBuilderNoBroadcast(p)
    /\ CallCount(p, "sign") > 0 =>
         /\ CallEnded(p, "decrypt", "ok")
         /\ obs[p].signedWith.xprv \in {XprvNames[i] : i \in 1..Len(XprvNames)}

\* ------------------------------------------------------------- C3
\* C3: the resolver asks for the candidates in list order from the first,
\* each once; every record fetched before the last one lacks encryptedXprv
\* (so nothing is fetched after the first match), and the record it returns
\* is the last one fetched, which carries encryptedXprv.
C3_ResolverFirstMatch ==
  \A p \in Spends :
    LET req == obs[p].requested
        got == obs[p].fetched
    IN /\ Len(req) <= Len(keychains.list)
       /\ \A k \in 1..Len(req) : req[k] = keychains.list[k].xpub
       /\ \A j, k \in 1..Len(req) : j # k => req[j] # req[k]
       /\ Len(got) <= Len(req) /\ Len(req) <= Len(got) + 1
       /\ \A k \in 1..Len(got) :
            /\ got[k].xpub = req[k]
            /\ k < Len(got) => got[k].encryptedXprv = Undef
       /\ pc[p] \in {"unlocking", "preparing", "signing", "broadcasting"} =>
            /\ Len(got) = Len(req) /\ Len(got) > 0
            /\ got[Len(got)].encryptedXprv # Undef
            /\ keychain[p].xpub = got[Len(got)].xpub
            /\ keychain[p].encryptedXprv = got[Len(got)].encryptedXprv
       /\ (pc[p] = "resolving") =>
            \A k \in 1..Len(got) : got[k].encryptedXprv = Undef

\* C3 witness: of three candidates the first lacks encryptedXprv, the second
\* carries it and is returned, the third is never asked for.
C3_Witness ==
  \E p \in Spends :
    /\ pc[p] = "unlocking"
    /\ Len(keychains.list) = 3
    /\ obs[p].requested = <<"xpub1", "xpub2">>
    /\ obs[p].fetched[1].encryptedXprv = Undef
    /\ keychain[p] = Keychain("xpub2", "enc2", Undef)

\* ------------------------------------------------------------- C4
\* The resolver of p ran out of candidates: the request was accepted, and
\* every candidate of the wallet was fetched and lacked encryptedXprv.
ResolverExhausted(p) ==
  /\ pc[p] # "idle"
  /\ ~InvalidRequest(params[p])
  /\ Len(obs[p].fetched) = Len(keychains.list)
  /\ \A k \in 1..Len(obs[p].fetched) : obs[p].fetched[k].encryptedXprv = Undef

\* C4 (as claimed): an empty keychain set, or one whose records all lack
\* encryptedXprv, fails the resolution with 'No encrypted keychains on this
\* wallet.' after one fetch per candidate, with no decrypt, builder or
\* broadcast call.
C4_NoKeychainFound ==
  \A p \in Spends :
    ResolverExhausted(p) =>
      /\ Done(p)
      /\ outcome[p].kind \in {"thrown", "rejected"}
      /\ outcome[p].err = ErrNoKeychains
      /\ CallCount(p, "get") = Len(keychains.list)
      /\ CallCount(p, "decrypt") = 0
      /\ NoBuilderNoBroadcast(p)

\* ------------------------------------------------------------- C5
\* C5: an invalid request (address or passphrase missing, amount not of type
\* number, amount <= 0) makes sendCoins throw synchronously, with the
\* validation error or the amount error, and no collaborator is called.
C5_InvalidRequestThrows ==
  \A p \in Spends :
    (pc[p] # "idle" /\ InvalidRequest(params[p])) =>
      /\ Done(p)
      /\ outcome[p].kind = "thrown"
      /\ outcome[p].err \in {ErrMissing("address"), ErrMissing("walletPassphrase"),
                             ErrAmountType, ErrAmountPositive}
      /\ (outcome[p].err = ErrAmountPositive) <=>
           (/\ params[p].address # Undef /\ params[p].walletPassphrase # Undef
            /\ params[p].amount.type = "number" /\ ~params[p].amount.nan
            /\ params[p].amount.val <= 0)
      /\ obs[p] = NoObs

\* C5 witness: a request with amount 0 and everything else in place was
\* refused with the amount error while the other spend is in flight.
C5_Witness ==
  \E p, q \in Spends :
    /\ Done(p)
    /\ params[p].address = "1ABC" /\ params[p].walletPassphrase = Passphrase
    /\ params[p].amount = JsNumber(0)
    /\ outcome[p] = Thrown(ErrAmountPositive)
    /\ pc[q] = "resolving"

\* ------------------------------------------------------------- C6
\* C6: a completed spend returns the fee of the builder state its own sign
\* returned, and the transaction and transactionHash of the response body.
C6_FeeFixedAtAssembly ==
  \A p \in Spends :
    outcome[p].kind = "resolved" =>
      /\ obs[p].built.defined
      /\ outcome[p].value.fee = obs[p].built.fee
      /\ outcome[p].value.tx = obs[p].body.transaction
      /\ outcome[p].value.hash = obs[p].body.transactionHash

\* C6 witness: a spend completed with the assembler's fee although the
\* response carried another transaction than the one assembled.
C6_Witness ==
  \E p \in Spends :
    /\ outcome[p] = Resolved([tx |-> "cosigned", hash |-> "h1", fee |-> JsNumber(2000)])
    /\ obs[p].built = [defined |-> TRUE, tx |-> "deadbeef", fee |-> JsNumber(2000)]

\* ------------------------------------------------------------- C7
\* C7: the plaintext xprv lives only in the record of a spend that is past
\* its decrypt and not yet terminated: a terminated spend holds no record,
\* the wallet's references never carry an xprv, a spend that has not yet
\* decrypted holds none either, and nothing handed to the caller contains one.
C7_XprvDiscarded ==
  LET Xprvs == {XprvNames[i] : i \in 1..Len(XprvNames)}
  IN /\ \A p \in Spends :
          /\ Done(p) => keychain[p] = NoKeychain
          /\ pc[p] \in {"idle", "resolving", "unlocking"} => keychain[p].xprv = Undef
          /\ outcome[p].err \notin Xprvs
          /\ outcome[p].value.tx \notin Xprvs /\ outcome[p].value.hash \notin Xprvs
     /\ \A i \in 1..Len(keychains.list) : keychains.list[i].xprv = Undef
     /\ \A i \in 1..Len(wallet.keychains.list) : wallet.keychains.list[i].xprv = Undef

\* C7 witness: one spend has terminated after signing with a decrypted key
\* and another one has just resolved its keychain.
C7_Witness ==
  \E p, q \in Spends :
    /\ Done(p) /\ obs[p].signedWith.xprv = "xprv1"
    /\ pc[q] = "unlocking" /\ keychain[q].xpub = "xpub1"

\* ------------------------------------------------------------- C8
CallRank(name) ==
  CASE name = "get" -> 1
    [] name = "decrypt" -> 2
    [] name = "prepare" -> 3
    [] name = "sign" -> 4
    [] name = "post" -> 5

\* C8: the calls of a spend are fetches, then decrypt, prepare, sign, post,
\* in this order without a gap, each issued only when the one before was
\* answered with success; post happens at most once, carries the transaction
\* of the spend's own builder state, and nothing follows it.
C8_StrictSequence ==
  \A p \in Spends :
    LET c == obs[p].calls
    IN /\ Len(c) > 0 => c[1].call = "get"
       /\ \A i \in 1..(Len(c) - 1) :
            /\ c[i].st = "ok"
            /\ \/ c[i].call = "get" /\ c[i + 1].call \in {"get", "decrypt"}
               \/ c[i].call # "get" /\ CallRank(c[i + 1].call) = CallRank(c[i].call) + 1
       /\ CallCount(p, "post") <= 1
       /\ CallCount(p, "post") = 1 =>
            /\ c[Len(c)].call = "post"
            /\ obs[p].built.defined
            /\ obs[p].posted = obs[p].built.tx
       /\ pc[p] = "broadcasting" <=> (Len(c) > 0 /\ c[Len(c)] = [call |-> "post", st |-> "pending"])

\* C8 witness: a spend that fetched twice, decrypted, prepared, signed and
\* posted, all answered.
C8_Witness ==
  \E p \in Spends :
    /\ Done(p)
    /\ CallNames(p) = <<"get", "get", "decrypt", "prepare", "sign", "post">>
    /\ obs[p].posted = "cafe"

\* ------------------------------------------------------------- C9
\* C9: when the keychain service, prepare, sign or the POST fails, the spend
\* is over, the caller holds exactly the error raised, the failed call is the
\* last call, and no call was made twice (each candidate asked for once).
C9_FailureAbortsUnmodified ==
  \A p \in Spends :
    LET c == obs[p].calls
    IN /\ obs[p].raised # NoError =>
            /\ Done(p)
            /\ outcome[p] = Rejected(obs[p].raised)
            /\ c[Len(c)].st = "failed"
            /\ c[Len(c)].call \in {"get", "prepare", "sign", "post"}
            /\ \A i \in 1..(Len(c) - 1) : c[i].st = "ok"
            /\ c[Len(c)].call = "get" =>
                 /\ Len(obs[p].requested) = Len(obs[p].fetched) + 1
                 /\ CallCount(p, "get") = Len(obs[p].requested)
       /\ (\E i \in 1..Len(c) : c[i].st = "failed" /\ c[i].call # "decrypt") =>
            obs[p].raised # NoError
       /\ \A name \in {"decrypt", "prepare", "sign", "post"} : CallCount(p, name) <= 1
       /\ \A j, k \in 1..Len(obs[p].requested) :
            j # k => obs[p].requested[j] # obs[p].requested[k]

\* C9 witness: the fetch of the second candidate failed; the third was never
\* asked for and the caller holds the keychain service's error.
C9_Witness ==
  \E p \in Spends :
    /\ Len(keychains.list) = 3
    /\ obs[p].requested = <<"xpub1", "xpub2">>
    /\ Len(obs[p].fetched) = 1
    /\ outcome[p] = Rejected(KeychainServiceError)

\* ------------------------------------------------------------- C10
\* C10: whatever the interleaving, the outcome of a spend is that of its own
\* collaborator answers: it completes exactly when its own POST succeeded,
\* with the body of its own POST and the fee of its own builder state; it
\* fails with its own collaborator's error; and it decrypts and signs with
\* the record it fetched itself, unlocked under its own passphrase.
C10_SpendsIsolated ==
  \A p \in Spends :
    LET got == obs[p].fetched
    IN /\ Done(p) =>
            /\ (outcome[p].kind = "resolved") <=> CallEnded(p, "post", "ok")
            /\ outcome[p].kind = "resolved" =>
                 outcome[p].value = [tx |-> obs[p].body.transaction,
                                     hash |-> obs[p].body.transactionHash,
                                     fee |-> obs[p].built.fee]
            /\ obs[p].raised # NoError => outcome[p] = Rejected(obs[p].raised)
       /\ CallCount(p, "decrypt") > 0 =>
            obs[p].decryptArgs = <<params[p].walletPassphrase, got[Len(got)].encryptedXprv>>
       /\ CallCount(p, "sign") > 0 =>
            /\ params[p].walletPassphrase = Passphrase
            /\ obs[p].signedWith.xpub = got[Len(got)].xpub
            /\ obs[p].signedWith.encryptedXprv = got[Len(got)].encryptedXprv
            /\ \E i \in 1..Len(EncNames) :
                 /\ EncNames[i] = got[Len(got)].encryptedXprv
                 /\ obs[p].signedWith.xprv = XprvNames[i]
       /\ pc[p] = "broadcasting" => transaction[p] = obs[p].built

\* C10 witness: two spends are broadcasting at once, with different
\* keychains and different fees.
C10_Witness ==
  /\ pc["s1"] = "broadcasting" /\ pc["s2"] = "broadcasting"
  /\ obs["s1"].signedWith.xprv = "xprv1" /\ obs["s2"].signedWith.xprv = "xprv2"
  /\ obs["s1"].built.fee = JsNumber(1000) /\ obs["s2"].built.fee = JsNumber(2000)

\* ------------------------------------------------------------- C12
\* What the primitive threw at the decrypt call of p.
DecryptThrew(p) == Decrypt(obs[p].decryptArgs[1], obs[p].decryptArgs[2]).err

\* C12: every spend whose decrypt failed ends with one and the same error,
\* whatever the primitive threw; that error is neither the primitive's own
\* error nor the passphrase or the blob handed to it.
C12_UnlockFailureGeneric ==
  \A p, q \in Spends :
    CallEnded(p, "decrypt", "failed") =>
      /\ Done(p) /\ outcome[p].kind = "rejected"
      /\ outcome[p].err \notin {DecryptErrCorrupt, DecryptErrPassword, DecryptThrew(p),
                                obs[p].decryptArgs[1], obs[p].decryptArgs[2]}
      /\ CallEnded(q, "decrypt", "failed") => outcome[p] = outcome[q]

\* C12 witness: one spend failed on a wrong passphrase, the other on a
\* corrupt blob under the right one.
C12_Witness ==
  /\ CallEnded("s1", "decrypt", "failed") /\ CallEnded("s2", "decrypt", "failed")
  /\ obs["s1"].decryptArgs = <<"wrong", "enc1">>
  /\ obs["s2"].decryptArgs = <<Passphrase, CorruptBlob>>
  /\ DecryptThrew("s1") = DecryptErrPassword /\ DecryptThrew("s2") = DecryptErrCorrupt
  /\ outcome["s1"] = outcome["s2"]

\* ------------------------------------------------------------- C11
\* p called the method m and the call has begun.
Began(p, m) == api[p].op = m /\ pc[p] # "idle"

\* C11 (as claimed): a spend request whose fee is present but no number is
\* refused synchronously, before any collaborator is called.
C11_NonNumberFeeRefused ==
  \A p \in Spends :
    (Began(p, "sendCoins") /\ params[p].fee.type \notin {"undefined", "number"}) =>
      /\ Done(p)
      /\ outcome[p].kind = "thrown"
      /\ obs[p] = NoObs

\* C11 (amended): sendCoins neither checks nor reads the fee of its request:
\* with a fee that is no number, a request is refused synchronously only for
\* its address, passphrase or amount (or for a wallet without keychains),
\* never with 'invalid argument'; otherwise the keychain is fetched and
\* prepare gets no fee. createTransaction called directly does refuse such a
\* fee, synchronously with 'invalid argument' and before any builder call.
C11_FeeIgnoredBySendCoins ==
  \A p \in Spends :
    /\ (Began(p, "sendCoins") /\ params[p].fee.type \notin {"undefined", "number"}) =>
         /\ outcome[p].err # ErrInvalidArgument
         /\ outcome[p].kind = "thrown" <=>
              (InvalidRequest(params[p]) \/ Len(keychains.list) = 0)
         /\ (~InvalidRequest(params[p]) /\ Len(keychains.list) > 0) =>
              CallCount(p, "get") > 0
         /\ CallCount(p, "prepare") > 0 => obs[p].prepared.fee = JsUndefined
    /\ (/\ Began(p, "createTransaction")
        /\ params[p].fee.type \notin {"undefined", "number"}
        /\ params[p].address # Undef) =>
         /\ outcome[p] = Thrown(ErrInvalidArgument)
         /\ obs[p] = NoObs

\* C11 witness: a spend whose request carries a string as fee has fetched,
\* decrypted and called prepare.
C11_Witness ==
  \E p \in Spends :
    /\ Began(p, "sendCoins")
    /\ params[p].fee = JsString
    /\ pc[p] = "preparing"
    /\ obs[p].prepared.fee = JsUndefined

\* ------------------------------------------------------------- C13
\* C13: createTransaction calls prepare, then (once prepare succeeded) sign
\* with the caller's keychain, each once and nothing else. When sign answers
\* with a builder state it resolves with exactly {tx, fee} of that state; when
\* sign answers with nothing it resolves with no value, not with an error.
C13_AssemblerContract ==
  \A p \in Spends :
    Began(p, "createTransaction") =>
      /\ \/ CallNames(p) = <<>>
         \/ CallNames(p) = <<"prepare">>
         \/ CallNames(p) = <<"prepare", "sign">>
      /\ CallCount(p, "sign") > 0 =>
           /\ obs[p].calls[1] = [call |-> "prepare", st |-> "ok"]
           /\ obs[p].signedWith = CallerKeychain
      /\ CallEnded(p, "sign", "ok") =>
           /\ Done(p)
           /\ outcome[p] = Resolved([defined |-> TRUE, tx |-> obs[p].built.tx,
                                     fee |-> obs[p].built.fee])
      /\ CallEnded(p, "sign", "empty") =>
           /\ Done(p)
           /\ outcome[p] = Resolved(Nothing)
      /\ (Done(p) /\ outcome[p].kind = "resolved") =>
           (CallEnded(p, "sign", "ok") \/ CallEnded(p, "sign", "empty"))

\* C13 witness: createTransaction resolved with the payload and the fee of
\* the builder state sign returned.
C13_Witness ==
  \E p \in Spends :
    /\ Began(p, "createTransaction")
    /\ CallNames(p) = <<"prepare", "sign">>
    /\ obs[p].built = [defined |-> TRUE, tx |-> "deadbeef", fee |-> JsNumber(2000)]
    /\ outcome[p] = Resolved([defined |-> TRUE, tx |-> "deadbeef", fee |-> JsNumber(2000)])

\* ------------------------------------------------------------- C14
\* C14: a sendTransaction call that is given a payload issues exactly one
\* POST, whose body is {tx: that payload} whatever the payload is; when the
\* service answers, the call resolves with {tx: body.transaction, hash:
\* body.transactionHash}; when the transport fails, the call fails with that
\* error and no second POST is made. No call ever issues more than one POST.
C14_OnePostPerCall ==
  \A p \in Spends :
    Began(p, "sendTransaction") =>
      /\ CallCount(p, "post") <= 1
      /\ CallNames(p) \in {<<>>, <<"post">>}
      /\ Truthy(params[p].tx) =>
           /\ CallNames(p) = <<"post">>
           /\ obs[p].posted = params[p].tx
      /\ CallEnded(p, "post", "ok") =>
           /\ Done(p)
           /\ outcome[p] = Resolved([tx |-> obs[p].body.transaction,
                                     hash |-> obs[p].body.transactionHash])
      /\ CallEnded(p, "post", "failed") =>
           /\ Done(p)
           /\ outcome[p] = Rejected(TransportError)
      /\ (Done(p) /\ CallCount(p, "post") = 1) =>
           (CallEnded(p, "post", "ok") \/ CallEnded(p, "post", "failed"))

\* C14 witness: one POST of the payload was answered and mapped to the
\* receipt.
C14_Witness ==
  \E p \in Spends :
    /\ Began(p, "sendTransaction")
    /\ obs[p].posted = "deadbeef"
    /\ CallNames(p) = <<"post">>
    /\ obs[p].body = [transaction |-> "cosigned", transactionHash |-> "h1"]
    /\ outcome[p] = Resolved([tx |-> "cosigned", hash |-> "h1"])

\* ------------------------------------------------------------- C15
\* C15 (as claimed): the fee prepare gets for a spend is the fee of the spend
\* request: the explicit fee when there is one, none otherwise.
C15_SpendFeeReachesPrepare ==
  \A p \in Spends :
    (Began(p, "sendCoins") /\ CallCount(p, "prepare") > 0) =>
      obs[p].prepared.fee = params[p].fee

\* C15 (amended): the fee override prepare gets is the fee given to
\* createTransaction; sendCoins calls createTransaction with address, amount
\* and keychain only, so for a spend prepare gets no override whether or not
\* the spend request carries a fee.
C15_FeeOverrideOnlyFromAssembler ==
  \A p \in Spends :
    /\ (Began(p, "sendCoins") /\ CallCount(p, "prepare") > 0) =>
         /\ obs[p].prepared.fee = JsUndefined
         /\ obs[p].prepared.address = params[p].address
         /\ obs[p].prepared.amount = params[p].amount
    /\ (Began(p, "createTransaction") /\ CallCount(p, "prepare") > 0) =>
         /\ obs[p].prepared.fee = params[p].fee
         /\ obs[p].prepared.address = params[p].address
         /\ obs[p].prepared.amount = params[p].amount

\* C15 witness: a spend whose request carries the fee 500 has called prepare,
\* without an override.
C15_Witness ==
  \E p \in Spends :
    /\ Began(p, "sendCoins")
    /\ params[p].fee = JsNumber(500)
    /\ CallCount(p, "prepare") = 1
    /\ obs[p].prepared.fee = JsUndefined

\* ------------------------------------------------------------- C16
\* C16: when every collaborator call is answered, a spend started with a
\* valid request ends, thrown, rejected or resolved; once it has ended its
\* outcome stays and it calls no collaborator again; and the resolver never
\* fetches more keychains than the wallet has references.
C16_SpendTerminates ==
  /\ \A p \in Spends :
       (Began(p, "sendCoins") /\ ~InvalidRequest(params[p])) ~>
         (Done(p) /\ outcome[p].kind \in {"thrown", "rejected", "resolved"})
  /\ [](\A p \in Spends : CallCount(p, "get") <= Len(keychains.list))
  /\ [][\A p \in Spends :
          Done(p) => /\ pc'[p] = "done"
                     /\ outcome'[p] = outcome[p]
                     /\ obs'[p] = obs[p]]_vars

\* C16 witness: a spend on a wallet of three keychain references ended
\* complete after three fetches.
C16_Witness ==
  \E p \in Spends :
    /\ Began(p, "sendCoins")
    /\ Done(p)
    /\ outcome[p].kind = "resolved"
    /\ Len(keychains.list) = 3
    /\ CallCount(p, "get") = 3

\* ------------------------------------------------------------- C17
\* C17: no step of any resolver or spend changes the wallet snapshot or the
\* wallet's keychain references, which stay the list the snapshot gives
\* (number, order, xpubs); a step that stores a decrypted xprv stores it in
\* the record fetched for that spend and leaves the references as they were.
C17_WalletFrame ==
  /\ [][wallet' = wallet /\ keychains' = keychains]_vars
  /\ [](keychains = WalletKeychains(wallet))
  /\ [][\A p \in Spends :
          (keychain'[p].xprv # Undef /\ keychain[p].xprv = Undef) =>
            /\ pc[p] = "unlocking"
            /\ keychain'[p].xpub = keychain[p].xpub
            /\ \A i \in 1..Len(keychains'.list) :
                 keychains'.list[i] = Keychain(keychains.list[i].xpub, Undef, Undef)]_vars

\* C17 witness: on a wallet of three references both spends hold a decrypted
\* record, of different keychains, and the references are the snapshot's.
C17_Witness ==
  /\ Len(keychains.list) = 3
  /\ keychain["s1"].xprv = "xprv1"
  /\ keychain["s2"].xprv = "xprv2"
  /\ keychains = WalletKeychains(wallet)

\* ------------------------------------------------------------- C18
\* C18 (as claimed): getEncryptedUserKeychain called with a callback invokes
\* it exactly once per call, with the final outcome of the search: never
\* before the search has ended, never a second time, and once the search has
\* ended with the keychain found or with the error.
C18_ResolverCallbackOnce ==
  \A p \in Spends :
    (Began(p, "getEncryptedUserKeychain") /\ api[p].hasCallback) =>
      /\ Len(api[p].delivered) <= 1
      /\ ~Done(p) => api[p].delivered = <<>>
      /\ (Done(p) /\ outcome[p].kind # "thrown") =>
           api[p].delivered = <<Delivery(outcome[p])>>

\* ------------------------------------------------------------- C19
\* C19 (as claimed): sendCoins called with a callback and a valid request
\* invokes the callback exactly once, whatever the outcome: not before the
\* spend has ended, and once it has ended exactly once, with its error or its
\* result.
C19_SendCoinsCallbackOnce ==
  \A p \in Spends :
    (Began(p, "sendCoins") /\ api[p].hasCallback /\ ~InvalidRequest(params[p])) =>
      /\ Len(api[p].delivered) <= 1
      /\ ~Done(p) => api[p].delivered = <<>>
      /\ Done(p) =>
           /\ Len(api[p].delivered) = 1
           /\ api[p].delivered[1].err = outcome[p].err

\* ------------------------------------------------------------- C20
\* Parameters createTransaction must refuse: address missing, amount not of
\* type number, fee defined and not of type number, keychain not an object,
\* or amount <= 0.
InvalidCreateRequest(prm) ==
  \/ prm.address = Undef
  \/ prm.amount.type # "number"
  \/ prm.fee.type \notin {"number", "undefined"}
  \/ prm.keychainType # "object"
  \/ (prm.amount.type = "number" /\ ~prm.amount.nan /\ prm.amount.val <= 0)

\* C20: createTransaction given parameters it must refuse throws
\* synchronously (the missing-parameter error, 'invalid argument' or the
\* amount error), with no builder call and no callback invocation; so the
\* builder is only ever called with parameters that passed every check.
C20_ValidationBeforeBuilder ==
  \A p \in Spends :
    Began(p, "createTransaction") =>
      /\ InvalidCreateRequest(params[p]) =>
           /\ Done(p)
           /\ outcome[p].kind = "thrown"
           /\ outcome[p].err \in {ErrMissing("address"), ErrInvalidArgument, ErrAmountPositive}
           /\ (outcome[p].err = ErrMissing("address")) <=> (params[p].address = Undef)
           /\ obs[p] = NoObs
           /\ api[p].delivered = <<>>
      /\ (CallCount(p, "prepare") > 0 \/ CallCount(p, "sign") > 0) =>
           ~InvalidCreateRequest(params[p])
      /\ ~InvalidCreateRequest(params[p]) => CallCount(p, "prepare") = 1

\* C20 witness: everything in place but the keychain, which is no object:
\* 'invalid argument' is thrown and the builder was not called.
C20_Witness ==
  \E p \in Spends :
    /\ Began(p, "createTransaction")
    /\ params[p] = [address |-> "1ABC", amount |-> JsNumber(100000),
                    fee |-> JsNumber(500), keychainType |-> "undefined"]
    /\ outcome[p] = Thrown(ErrInvalidArgument)
    /\ CallCount(p, "prepare") = 0

====
